---- MODULE Spec2Model ----
(***************************************************************************)
(* A model of streamlit_app.py: the Streamlit front end of the movie       *)
(* recommendation system.  One session of the app is a sequence of script  *)
(* runs; every user interaction re-executes the script top to bottom       *)
(* against st.session_state, the widget values and the process-wide        *)
(* st.cache_data caches.  An action of the model is one user interaction   *)
(* with every script run it causes (st.rerun() included).  The wake-up     *)
(* loop of the first run is modelled probe by probe, because each probe    *)
(* reads the environment.                                                  *)
(***************************************************************************)
EXTENDS Integers, Sequences, FiniteSets, TLC

(***************************************************************************)
(* Program constants.                                                      *)
(***************************************************************************)
MaxRetries == 30
TTL_DEFAULT == 600
TTL_TRENDING == 3600
HistoryWindow == 6
GridSize == 5
MinQueryLen == 2

(***************************************************************************)
(* Bounds of the model.                                                    *)
(***************************************************************************)
MaxHours == 1
MaxTicks == 2
MaxTrendLen == 5
MaxTranscript == 7
MaxChatMain == 2
MaxCached == 1
MaxVideos == 2
MaxCast == 4
MaxCrew == 2

VARIABLES
    session_state,  \* st.session_state: a dict, DOMAIN = the keys present
    clicked,        \* value of the clickable_images component "trending_selector"
    search,         \* value of the search page's text input
    shown,          \* number of trending posters on screen (what the user can click)
    selected,       \* value of the search page's selectbox: index of the chosen match
    matches,        \* number of options of the selectbox on screen
    grid,           \* number of recommendation cards (Details buttons) on screen
    cache,          \* the st.cache_data caches: (function, arguments) -> [val, at]
    now,            \* wall clock, seconds
    ticks,          \* number of clock advances so far (bounded)
    wake,           \* call frame of wake_up_backend
    wakeCalls,      \* history: number of wake_up_backend invocations
    prod,           \* history: last invocation of each cached function's body
    lastCall,       \* history: the last call of a cached accessor
    act,            \* history: the last user interaction
    reqs,           \* history: requests issued by the last interaction
    errors,         \* history: st.error messages shown by the last interaction
    crashed,        \* history: uncaught exception ending the last script run
    heroRead,       \* history: the last evaluation of trending[hero_index]
    searchRet,      \* history: what search_movies returned in the last interaction
    payload,        \* history: the body posted to /chat by the last interaction
    turn,           \* history: the chat turn of the last interaction
    recReq,         \* history: the recommend request of the last interaction
    arg,            \* an accessor evaluated on its own: accessor, argument, response
    out             \* <<result>> of that evaluation, <<>> before it

vars == <<session_state, clicked, search, shown, selected, matches, grid, cache, now,
          ticks, wake, wakeCalls, prod, lastCall, act, reqs, errors, crashed, heroRead,
          searchRet, payload, turn, recReq, arg, out>>

(***************************************************************************)
(* Python dict helpers.                                                    *)
(***************************************************************************)
Has(d, k) == k \in DOMAIN d

Get(d, k, default) == IF k \in DOMAIN d THEN d[k] ELSE default

Put(d, k, v) == [x \in DOMAIN d \cup {k} |-> IF x = k THEN v ELSE d[x]]

EmptyDict == [x \in {} |-> 0]

Min(a, b) == IF a < b THEN a ELSE b

(* Bind(v, Body): Body applied to the value of v, computed once (a local
   variable of the code). *)
Bind(v, Body(_)) == CHOOSE y \in {Body(x) : x \in {v}} : TRUE

(***************************************************************************)
(* HTTP outcomes: a 2xx response, a non-2xx response (both with a JSON     *)
(* body) or a requests.RequestException (timeout, connection error).       *)
(***************************************************************************)
Outcomes == {"ok", "http_err", "net_err"}

ErrorBody == [status_code |-> 7]

Movies(n) == [i \in 1..n |-> [id |-> i]]

TrendLens == {0, 2, MaxTrendLen}

TrendingResponses ==
    {[kind |-> "ok", body |-> [results |-> Movies(n)]] : n \in TrendLens}
    \cup {[kind |-> "http_err", body |-> ErrorBody], [kind |-> "net_err", body |-> EmptyDict]}

(***************************************************************************)
(* Python values that may be None.                                         *)
(***************************************************************************)
PyNone == [py |-> "None"]

PyStr(s) == [py |-> "str", s |-> s]

(***************************************************************************)
(* The metadata accessors (the bodies under @st.cache_data).  resp is the  *)
(* outcome of the accessor's single requests.get call.                     *)
(***************************************************************************)
RECURSIVE FirstTrailer(_)
FirstTrailer(videos) ==
    IF videos = <<>> THEN <<>>
    ELSE IF Get(Head(videos), "type", PyNone) = PyStr("Trailer") THEN <<Head(videos)>>
    ELSE FirstTrailer(Tail(videos))

(* Mutant of fetch_trailer: the first video whatever its type. *)
fetch_trailerFirstVideo(resp) ==
    IF resp.kind = "net_err" THEN PyNone
    ELSE LET results == Get(resp.body, "results", <<>>)
         IN IF results # <<>> THEN Get(results[1], "key", PyNone) ELSE PyNone

fetch_trailer(resp) ==
    IF resp.kind = "net_err" THEN PyNone
    ELSE LET results == Get(resp.body, "results", <<>>)
             hit == FirstTrailer(results)
         IN IF hit # <<>> THEN Get(hit[1], "key", PyNone)
            ELSE IF results # <<>> THEN Get(results[1], "key", PyNone)
            ELSE PyNone

fetch_tmdb_details(resp) ==
    IF resp.kind = "net_err" THEN EmptyDict ELSE resp.body

RECURSIVE Join(_)
Join(names) ==
    IF Len(names) <= 1 THEN names
    ELSE <<Head(names), ", ">> \o Join(Tail(names))

RECURSIVE FirstDirector(_)
FirstDirector(crew) ==
    IF crew = <<>> THEN "Unknown"
    ELSE IF Get(Head(crew), "job", "") = "Director" THEN Head(crew).name
    ELSE FirstDirector(Tail(crew))

fetch_credits(resp) ==
    IF resp.kind = "net_err" THEN [cast |-> <<"N/A">>, director |-> "N/A"]
    ELSE LET castList == Get(resp.body, "cast", <<>>)
             cast == [i \in 1..Min(3, Len(castList)) |-> castList[i].name]
         IN [cast |-> Join(cast), director |-> FirstDirector(Get(resp.body, "crew", <<>>))]

fetch_watch_providers(resp) ==
    IF resp.kind = "net_err" THEN <<>>
    ELSE LET results == Get(resp.body, "results", EmptyDict)
             providers == Get(results, "IN", Get(results, "US", EmptyDict))
         IN Get(providers, "flatrate", <<>>)

fetch_trending_movies(resp) ==
    IF resp.kind = "net_err" THEN <<>> ELSE Get(resp.body, "results", <<>>)

StartsWithHttp(path) ==
    Len(path) >= 4 /\ SubSeq(path, 1, 4) = <<"h", "t", "t", "p">>

ImageBase == <<"h", "t", "t", "p", "s://image.tmdb.org/t/p/w500">>

Placeholder == <<"h", "t", "t", "p", "s://via.placeholder.com/500x750?text=No+Poster">>

fetch_poster(poster_path) ==
    IF poster_path # <<>> /\ ~StartsWithHttp(poster_path)
    THEN ImageBase \o poster_path
    ELSE Placeholder

(***************************************************************************)
(* The responses the environment may give to each accessor's request.      *)
(***************************************************************************)
NetErr == [kind |-> "net_err", body |-> EmptyDict]

HttpErr == [kind |-> "http_err", body |-> ErrorBody]

Ok(b) == [kind |-> "ok", body |-> b]

VideoBodies ==
    {[results |-> <<[type |-> PyStr("Teaser"), key |-> PyStr("k1")],
                    [type |-> PyStr("Trailer"), key |-> PyStr("k2")]>>]}

DetailBodies == {[runtime |-> 120, budget |-> 5000000]}

CreditBodies ==
    {[cast |-> <<[name |-> "A"], [name |-> "B"], [name |-> "C"], [name |-> "D"]>>,
      crew |-> <<[name |-> "P", job |-> "Producer"], [name |-> "Q", job |-> "Director"]>>]}

ProviderBodies ==
    {[results |-> [IN |-> [flatrate |-> <<"hotstar">>], US |-> [flatrate |-> <<"netflix">>]]]}

Accessors == {"trailer", "poster", "details", "credits", "providers", "trending"}

Responses(f) ==
    CASE f = "trailer" -> {Ok(b) : b \in VideoBodies} \cup {HttpErr, NetErr}
      [] f = "details" -> {Ok(b) : b \in DetailBodies} \cup {HttpErr, NetErr}
      [] f = "credits" -> {Ok(b) : b \in CreditBodies} \cup {HttpErr, NetErr}
      [] f = "providers" -> {Ok(b) : b \in ProviderBodies} \cup {HttpErr, NetErr}
      [] f = "trending" -> TrendingResponses
      [] f = "poster" -> {NetErr}

MovieIds == {<<1>>, <<2>>}

PosterPaths == {<<>>, <<"/", "a">>, <<"h", "t", "t", "p", "x">>}

Keys(f) ==
    CASE f = "trending" -> {<<>>}
      [] f = "poster" -> PosterPaths
      [] OTHER -> MovieIds

(***************************************************************************)
(* Produce(f, k, resp): one execution of accessor f's body.                *)
(***************************************************************************)
Produce(f, k, resp) ==
    CASE f = "trailer" -> fetch_trailer(resp)
      [] f = "poster" -> fetch_poster(k)
      [] f = "details" -> fetch_tmdb_details(resp)
      [] f = "credits" -> fetch_credits(resp)
      [] f = "providers" -> fetch_watch_providers(resp)
      [] f = "trending" -> fetch_trending_movies(resp)

(***************************************************************************)
(* st.cache_data(ttl=...): an entry is served while it is younger than the *)
(* ttl, counted from the time it was stored; otherwise the body runs and   *)
(* whatever it returns is stored.                                          *)
(***************************************************************************)
TTL(f) == IF f = "trending" THEN TTL_TRENDING ELSE TTL_DEFAULT

(* Mutant of Fresh: an entry still served at the instant its ttl has elapsed. *)
FreshInclusive(cch, f, k, t) ==
    /\ <<f, k>> \in DOMAIN cch
    /\ t <= cch[<<f, k>>].at + TTL(f)

Fresh(cch, f, k, t) ==
    /\ <<f, k>> \in DOMAIN cch
    /\ t < cch[<<f, k>>].at + TTL(f)

Store(cch, f, k, v, t) == Put(cch, <<f, k>>, [val |-> v, at |-> t])

CachedCall(cch, pr, f, k, t, resp) ==
    Bind(Fresh(cch, f, k, t), LAMBDA hit :
    Bind(IF hit THEN cch[<<f, k>>].val ELSE Produce(f, k, resp), LAMBDA v :
        [cache |-> IF hit THEN cch ELSE Store(cch, f, k, v, t),
         ret |-> v,
         fetched |-> ~hit,
         prod |-> IF hit THEN pr
                  ELSE Put(pr, <<f, k>>, [val |-> v, at |-> t, ok |-> resp.kind = "ok"]),
         call |-> [cell |-> <<f, k>>, at |-> t, ret |-> v, fetched |-> ~hit,
                   gap |-> IF <<f, k>> \in DOMAIN pr THEN t - pr[<<f, k>>].at ELSE -1,
                   prev |-> IF <<f, k>> \in DOMAIN pr THEN <<pr[<<f, k>>].val>> ELSE <<>>]]))

NoCall == [cell |-> <<"none", <<>>>>, at |-> -1, ret |-> <<>>, fetched |-> FALSE,
           gap |-> -1, prev |-> <<>>]

(***************************************************************************)
(* One script run.  R is the state a run works on: session state, caches,  *)
(* widget values, and what the run has shown and sent so far.  rerun is    *)
(* set by st.rerun(), which ends the run at once.                          *)
(***************************************************************************)
NoRead == [idx |-> -1, len |-> -1]

NotCalled == [called |-> FALSE, val |-> <<>>, kind |-> "none"]

NoPayload == [sent |-> FALSE, msgs |-> <<>>]

NoTurn == [sent |-> FALSE, before |-> <<>>, prompt |-> "", failed |-> FALSE]

NoEvent == [type |-> "none", i |-> -1, text |-> <<>>]

NoRecReq == [sent |-> FALSE, movie |-> EmptyDict, stored |-> FALSE, before |-> EmptyDict]

Start ==
    [ss |-> session_state, cache |-> cache, prod |-> prod, lastCall |-> lastCall,
     clicked |-> clicked, search |-> search, shown |-> shown,
     selected |-> selected, matches |-> matches, grid |-> grid,
     reqs |-> <<>>, errors |-> {}, crashed |-> "no", heroRead |-> NoRead,
     searchRet |-> NotCalled, payload |-> NoPayload, rerun |-> FALSE,
     turn |-> NoTurn, recReq |-> NoRecReq, rendered |-> {}]

(* A run starts with an empty page: nothing shown, no widget rendered yet. *)
BeginRun(R) ==
    [R EXCEPT !.shown = 0, !.matches = 0, !.grid = 0, !.rendered = {}, !.rerun = FALSE]

(* A run that reaches the end of the script drops the values of the widgets
   it did not render; a run ended by st.rerun() or an exception does not. *)
EndRun(R) ==
    IF R.rerun \/ R.crashed # "no" THEN R
    ELSE [R EXCEPT !.clicked = IF "trending_selector" \in R.rendered THEN @ ELSE -1,
                   !.search = IF "search_input" \in R.rendered THEN @ ELSE <<>>,
                   !.selected = IF "selectbox" \in R.rendered THEN @ ELSE 0]

(* Mutant of go_home: the Home button leading to the search page. *)
go_homeToSearch(R) == [R EXCEPT !.ss = Put(@, "page", "search")]

go_home(R) == [R EXCEPT !.ss = Put(@, "page", "home")]

go_search(R) == [R EXCEPT !.ss = Put(@, "page", "search")]

go_chat(R) == [R EXCEPT !.ss = Put(@, "page", "chat")]

st_rerun(R) == [R EXCEPT !.rerun = TRUE]

InitPage(R) ==
    IF Has(R.ss, "page") THEN R ELSE [R EXCEPT !.ss = Put(@, "page", "home")]

(* The cached call of fetch_trending_movies() made by a run at time t. *)
CallTrending(R, t, resp) ==
    Bind(CachedCall(R.cache, R.prod, "trending", <<>>, t, resp), LAMBDA c :
        [R EXCEPT !.cache = c.cache, !.prod = c.prod, !.lastCall = c.call,
                  !.reqs = IF c.fetched THEN Append(@, "GET /trending/movie/week") ELSE @])

(* The hero selection and the trending click handler of the home page. *)
HeroSection(R, trending) ==
    IF trending = <<>>
    THEN R
    ELSE Bind(IF Has(R.ss, "hero_index") THEN R
              ELSE [R EXCEPT !.ss = Put(@, "hero_index", 0)], LAMBDA R1 :
         Bind([R1 EXCEPT !.heroRead = [idx |-> R1.ss.hero_index, len |-> Len(trending)]],
              LAMBDA R2 :
            IF ~(R2.ss.hero_index < Len(trending))
            THEN [R2 EXCEPT !.crashed = "IndexError"]
            ELSE IF R2.clicked > -1 /\ R2.clicked # R2.ss.hero_index
            THEN st_rerun([R2 EXCEPT !.shown = Min(GridSize, Len(trending)),
                                     !.rendered = @ \cup {"trending_selector"},
                                     !.ss = Put(@, "hero_index", R2.clicked)])
            ELSE [R2 EXCEPT !.shown = Min(GridSize, Len(trending)),
                            !.rendered = @ \cup {"trending_selector"}]))

HomePage(R, ev, t, resp) ==
    IF ev.type = "nav_search_card" THEN st_rerun(go_search(R))
    ELSE IF ev.type = "nav_chat_card" THEN st_rerun(go_chat(R))
    ELSE Bind(CallTrending(R, t, resp), LAMBDA R1 : HeroSection(R1, R1.lastCall.ret))

(***************************************************************************)
(* The backend gateway.                                                    *)
(***************************************************************************)
SearchResponses == {Ok(<<>>), Ok(Movies(2)), HttpErr, NetErr}

(* Mutant of search_movies: the request made without the readiness check. *)
search_moviesUnguarded(R, query, resp) ==
    IF resp.kind = "ok"
    THEN [R EXCEPT !.reqs = Append(@, "GET /search"),
                   !.searchRet = [called |-> TRUE, val |-> resp.body, kind |-> resp.kind]]
    ELSE [R EXCEPT !.reqs = Append(@, "GET /search"),
                   !.errors = @ \cup {"Connection lost"},
                   !.searchRet = [called |-> TRUE, val |-> <<>>, kind |-> resp.kind]]

search_movies(R, query, resp) ==
    IF ~R.ss.backend_ready
    THEN [R EXCEPT !.errors = @ \cup {"Backend is unreachable"},
                   !.searchRet = [called |-> TRUE, val |-> <<>>, kind |-> "none"]]
    ELSE CASE resp.kind = "ok" ->
                [R EXCEPT !.reqs = Append(@, "GET /search"),
                          !.searchRet = [called |-> TRUE, val |-> resp.body, kind |-> "ok"]]
           [] resp.kind = "http_err" ->
                [R EXCEPT !.reqs = Append(@, "GET /search"),
                          !.searchRet = [called |-> TRUE, val |-> <<>>, kind |-> "http_err"]]
           [] resp.kind = "net_err" ->
                [R EXCEPT !.reqs = Append(@, "GET /search"),
                          !.errors = @ \cup {"Connection lost"},
                          !.searchRet = [called |-> TRUE, val |-> <<>>, kind |-> "net_err"]]

(* The backend's answers to GET /recommend/id/{id}/enriched.  The
   recommendations carry ids derived from the id of the movie asked for. *)
RecOutcomes == {"recs", "no_recs", "no_field", "http_err", "net_err"}

RecsOf(id) == <<[id |-> 10 * id + 1], [id |-> 10 * id + 2]>>

RecommendResponse(id, o) ==
    CASE o = "recs" -> Ok([recommendations |-> RecsOf(id)])
      [] o = "no_recs" -> Ok([recommendations |-> <<>>])
      [] o = "no_field" -> Ok(EmptyDict)
      [] o = "http_err" -> HttpErr
      [] o = "net_err" -> NetErr

(* Python truth value of a dict or None. *)
Truthy(x) == x # PyNone /\ x # EmptyDict

(* Mutant of RecommendHandler: the source movie stored before the request. *)
RecommendHandlerEager(R, movie, resp) ==
    Bind([R EXCEPT !.ss = Put(Put(@, "selected_rec", PyNone), "source_movie", movie),
                   !.reqs = Append(@, "GET /recommend")], LAMBDA R1 :
        CASE resp.kind = "ok" /\ Has(resp.body, "recommendations") ->
               [R1 EXCEPT !.ss = Put(@, "recs", resp.body.recommendations)]
          [] resp.kind = "ok" /\ ~Has(resp.body, "recommendations") ->
               [R1 EXCEPT !.errors = @ \cup {"Connection Error: 'recommendations'"}]
          [] resp.kind = "http_err" ->
               [R1 EXCEPT !.errors = @ \cup {"API Error"}]
          [] resp.kind = "net_err" ->
               [R1 EXCEPT !.errors = @ \cup {"Connection Error"}])

(* The handler of "Get Similar Recommendations" for the chosen movie. *)
RecommendHandler(R, movie, resp) ==
    Bind([R EXCEPT !.ss = Put(@, "selected_rec", PyNone),
                   !.reqs = Append(@, "GET /recommend")], LAMBDA R1 :
        CASE resp.kind = "ok" /\ Has(resp.body, "recommendations") ->
               [R1 EXCEPT !.ss = Put(Put(@, "recs", resp.body.recommendations),
                                     "source_movie", movie)]
          [] resp.kind = "ok" /\ ~Has(resp.body, "recommendations") ->
               [R1 EXCEPT !.errors = @ \cup {"Connection Error: 'recommendations'"}]
          [] resp.kind = "http_err" ->
               [R1 EXCEPT !.errors = @ \cup {"API Error"}]
          [] resp.kind = "net_err" ->
               [R1 EXCEPT !.errors = @ \cup {"Connection Error"}])

(* What the session holds of recs and source_movie (the keys present). *)
RecState(ss) == [k \in DOMAIN ss \cap {"recs", "source_movie"} |-> ss[k]]

(* The selectbox over the matches, the preview and the recommend button.
   A widget whose options changed starts again at its first option. *)
ResultsSection(R, ev, movies, o) ==
    IF movies = <<>>
    THEN R
    ELSE Bind([R EXCEPT !.rendered = @ \cup {"selectbox"},
                        !.matches = Len(movies),
                        !.selected = IF @ < Len(movies) THEN @ ELSE 0], LAMBDA R1 :
         Bind(movies[R1.selected + 1], LAMBDA movie :
            IF Truthy(movie) /\ ev.type = "recommend"
            THEN [RecommendHandler(R1, movie, RecommendResponse(movie.id, o)) EXCEPT
                     !.recReq = [sent |-> TRUE, movie |-> movie,
                                 stored |-> o \in {"recs", "no_recs"},
                                 before |-> RecState(R1.ss)]]
            ELSE R1))

(* The recommendations grid and its Details buttons. *)
GridSection(R, ev) ==
    IF Has(R.ss, "recs") /\ R.ss.recs # <<>>
    THEN IF ev.type = "details" /\ ev.i < Len(R.ss.recs)
         THEN [R EXCEPT !.grid = Len(R.ss.recs),
                        !.ss = Put(Put(@, "selected_rec", R.ss.recs[ev.i + 1]),
                                   "show_dialog", TRUE)]
         ELSE [R EXCEPT !.grid = Len(R.ss.recs)]
    ELSE R

SearchPage(R, ev, resp, o) ==
    IF ev.type = "back_search" THEN st_rerun(go_home(R))
    ELSE Bind([R EXCEPT !.rendered = @ \cup {"search_input"}], LAMBDA R1 :
         Bind(IF R1.search # <<>> /\ Len(R1.search) >= MinQueryLen
              THEN Bind(search_movies(R1, R1.search, resp), LAMBDA R2 :
                        ResultsSection(R2, ev, R2.searchRet.val, o))
              ELSE R1, LAMBDA R3 :
            GridSection(R3, ev)))

(***************************************************************************)
(* The chat page.                                                          *)
(***************************************************************************)
Greeting == [role |-> "assistant", content |-> "Hello!"]

ChatResponses == {Ok([content |-> "r1"]), Ok(EmptyDict), HttpErr, NetErr}

(* Mutant of LastN: the first n entries, history[:n]. *)
FirstN(seq, n) == SubSeq(seq, 1, Min(n, Len(seq)))

LastN(seq, n) == SubSeq(seq, IF Len(seq) > n THEN Len(seq) - n + 1 ELSE 1, Len(seq))

NotSystem(m) == m.role # "system"

CleanMsgs(history) ==
    LET recent == LastN(history, HistoryWindow)
        kept == SelectSeq(recent, NotSystem)
    IN [i \in 1..Len(kept) |-> [role |-> kept[i].role, content |-> kept[i].content]]

(* Mutant of ChatTurn: a failed request answered in the transcript. *)
ChatTurnPhantom(R, prompt, resp) ==
    Bind([R EXCEPT !.ss = Put(@, "chat_history",
                              Append(@.chat_history, [role |-> "user", content |-> prompt]))],
         LAMBDA R1 :
    Bind([R1 EXCEPT !.reqs = Append(@, "POST /chat"),
                    !.payload = [sent |-> TRUE, msgs |-> CleanMsgs(R1.ss.chat_history)]],
         LAMBDA R2 :
        [R2 EXCEPT !.ss = Put(@, "chat_history",
                              Append(@.chat_history,
                                     [role |-> "assistant",
                                      content |-> IF resp.kind = "ok" /\ Has(resp.body, "content")
                                                  THEN resp.body.content
                                                  ELSE "Sorry, something went wrong."])),
                   !.errors = IF resp.kind = "ok" /\ Has(resp.body, "content")
                              THEN @ ELSE @ \cup {"Error"}]))

ChatTurn(R, prompt, resp) ==
    Bind([R EXCEPT !.ss = Put(@, "chat_history",
                              Append(@.chat_history, [role |-> "user", content |-> prompt]))],
         LAMBDA R1 :
    Bind([R1 EXCEPT !.reqs = Append(@, "POST /chat"),
                    !.payload = [sent |-> TRUE, msgs |-> CleanMsgs(R1.ss.chat_history)]],
         LAMBDA R2 :
        CASE resp.kind = "ok" /\ Has(resp.body, "content") ->
               [R2 EXCEPT !.ss = Put(@, "chat_history",
                                     Append(@.chat_history,
                                            [role |-> "assistant", content |-> resp.body.content]))]
          [] resp.kind = "ok" /\ ~Has(resp.body, "content") ->
               [R2 EXCEPT !.errors = @ \cup {"Error: 'content'"}]
          [] resp.kind = "http_err" ->
               [R2 EXCEPT !.errors = @ \cup {"AI Brain Offline."}]
          [] resp.kind = "net_err" ->
               [R2 EXCEPT !.errors = @ \cup {"Error: connection"}]))

(* Mutant of ChatPage: the greeting stored again by every run without a prompt. *)
ChatPageRegreets(R, ev, resp) ==
    IF ev.type = "back_chat" THEN st_rerun(go_home(R))
    ELSE IF ev.type = "chat_input"
    THEN [ChatTurn(R, ev.text, resp) EXCEPT
             !.turn = [sent |-> TRUE, before |-> R.ss.chat_history,
                       prompt |-> ev.text,
                       failed |-> ~(resp.kind = "ok" /\ Has(resp.body, "content"))]]
    ELSE [R EXCEPT !.ss = Put(@, "chat_history", <<Greeting>>)]

ChatPage(R, ev, resp) ==
    IF ev.type = "back_chat" THEN st_rerun(go_home(R))
    ELSE Bind(IF Has(R.ss, "chat_history") THEN R
              ELSE [R EXCEPT !.ss = Put(@, "chat_history", <<Greeting>>)], LAMBDA R1 :
            IF ev.type = "chat_input"
            THEN [ChatTurn(R1, ev.text, resp) EXCEPT
                     !.turn = [sent |-> TRUE, before |-> R1.ss.chat_history,
                               prompt |-> ev.text,
                               failed |-> ~(resp.kind = "ok" /\ Has(resp.body, "content"))]]
            ELSE R1)

(***************************************************************************)
(* The script, from the page initialisation on, and the runs one           *)
(* interaction causes: the run the event triggers and, after st.rerun(),   *)
(* the run that follows without an event.                                  *)
(***************************************************************************)
(* The dialog logic at the end of the script, reached by a run that no
   st.rerun() and no exception has ended.  show_movie_dialog is defined
   nowhere: the call raises NameError before the flag is cleared. *)
DialogLogic(R) ==
    IF R.rerun \/ R.crashed # "no" THEN R
    ELSE IF Get(R.ss, "show_dialog", FALSE) /\ Truthy(Get(R.ss, "selected_rec", PyNone))
         THEN [R EXCEPT !.crashed = "NameError"]
         ELSE R

Script(R, ev, t, inp) ==
    Bind(BeginRun(R), LAMBDA Rb :
    Bind(InitPage(Rb), LAMBDA R0 :
    Bind(CASE R0.ss.page = "home" -> HomePage(R0, ev, t, inp.trending)
           [] R0.ss.page = "search" -> SearchPage(R0, ev, inp.search, inp.recommend)
           [] R0.ss.page = "chat" -> ChatPage(R0, ev, inp.chat),
         LAMBDA R1 :
    Bind(DialogLogic(R1), LAMBDA R2 : EndRun(R2)))))

RECURSIVE RunAll(_, _, _, _)
RunAll(R, ev, t, inp) ==
    Bind(Script(R, ev, t, inp), LAMBDA R1 :
        IF R1.rerun THEN RunAll(R1, NoEvent, t, inp) ELSE R1)

Commit(R, a) ==
    /\ session_state' = R.ss
    /\ clicked' = R.clicked
    /\ search' = R.search
    /\ shown' = R.shown
    /\ selected' = R.selected
    /\ matches' = R.matches
    /\ grid' = R.grid
    /\ recReq' = R.recReq
    /\ cache' = R.cache
    /\ prod' = R.prod
    /\ lastCall' = R.lastCall
    /\ reqs' = R.reqs
    /\ errors' = R.errors
    /\ crashed' = R.crashed
    /\ heroRead' = R.heroRead
    /\ searchRet' = R.searchRet
    /\ payload' = R.payload
    /\ turn' = R.turn
    /\ act' = a

Inputs(tr, sr, cr) == [trending |-> tr, search |-> sr, chat |-> cr, recommend |-> "net_err"]

SearchInputs(sr, o) == [trending |-> NetErr, search |-> sr, chat |-> NetErr, recommend |-> o]

Event(type) == [type |-> type, i |-> -1, text |-> <<>>]

(***************************************************************************)
(* wake_up_backend, one health probe per step.  The frame holds the loop   *)
(* index i and, as history, the probes made, the failed ones and the       *)
(* sleeps; it is discarded when the function has returned.                 *)
(***************************************************************************)
IdleFrame == [pc |-> "idle", i |-> 0, probes |-> 0, fails |-> 0, sleeps |-> 0,
              ret |-> FALSE, last |-> "none"]

(* Mutant of InitDone: the wake-up repeated while the flag is not true. *)
InitDoneWhenTrue == Has(session_state, "backend_ready") /\ session_state.backend_ready

(* line 209: the readiness flag is initialised when the key is absent *)
InitDone == Has(session_state, "backend_ready")

Ready == InitDone /\ wake.pc = "idle"

WakeVars == <<session_state, clicked, search, shown, selected, matches, grid, cache, now,
              ticks, prod, lastCall, errors, crashed, heroRead, searchRet, payload, turn,
              recReq, arg, out>>

(* The fast check: one probe, timeout 2 s. *)
FastProbe(o) ==
    /\ ~InitDone
    /\ wake.pc = "idle"
    /\ wake' = IF o = "ok"
               THEN [IdleFrame EXCEPT !.pc = "done", !.ret = TRUE, !.probes = 1, !.last = o]
               ELSE [IdleFrame EXCEPT !.pc = "retry", !.probes = 1, !.fails = 1, !.last = o]
    /\ wakeCalls' = wakeCalls + 1
    /\ reqs' = <<"GET /health">>
    /\ act' = "fast_probe"
    /\ UNCHANGED WakeVars

(* Mutant of RetryStep: one iteration too many. *)
RetryStepOffByOne(w, o) ==
    IF o = "ok"
    THEN [w EXCEPT !.pc = "done", !.ret = TRUE, !.probes = @ + 1, !.last = o]
    ELSE [w EXCEPT !.pc = IF w.i + 1 <= MaxRetries THEN "retry" ELSE "done",
                   !.ret = FALSE,
                   !.i = @ + 1,
                   !.probes = @ + 1,
                   !.fails = @ + 1,
                   !.sleeps = IF o = "net_err" THEN @ + 1 ELSE @,
                   !.last = o]

(* One iteration of `for _ in range(30)`: a probe with timeout 5 s; the
   sleep stands in the except clause only. *)
RetryStep(w, o) ==
    IF o = "ok"
    THEN [w EXCEPT !.pc = "done", !.ret = TRUE, !.probes = @ + 1, !.last = o]
    ELSE [w EXCEPT !.pc = IF w.i + 1 < MaxRetries THEN "retry" ELSE "done",
                   !.ret = FALSE,
                   !.i = @ + 1,
                   !.probes = @ + 1,
                   !.fails = @ + 1,
                   !.sleeps = IF o = "net_err" THEN @ + 1 ELSE @,
                   !.last = o]

RetryProbe(o) ==
    /\ wake.pc = "retry"
    /\ wake' = RetryStep(wake, o)
    /\ reqs' = <<"GET /health">>
    /\ act' = "retry_probe"
    /\ UNCHANGED <<wakeCalls, WakeVars>>

(* line 210 and the rest of the first script run. *)
WakeReturn(tr) ==
    /\ wake.pc = "done"
    /\ wake' = IdleFrame
    /\ \E R0 \in {[Start EXCEPT !.ss = Put(@, "backend_ready", wake.ret)]} :
       \E R1 \in {RunAll(R0, NoEvent, now, Inputs(tr, NetErr, NetErr))} :
           Commit(R1, "first_run")
    /\ UNCHANGED <<now, ticks, wakeCalls, arg, out>>

(***************************************************************************)
(* User interactions.                                                      *)
(***************************************************************************)
Page == session_state.page

Interact(R, ev, inp) ==
    /\ \E R0 \in {R} : \E R1 \in {RunAll(R0, ev, now, inp)} : Commit(R1, ev.type)
    /\ UNCHANGED <<now, ticks, wake, wakeCalls, arg, out>>

NavSearch ==
    /\ Ready /\ Page = "home"
    /\ Interact(Start, Event("nav_search_card"), Inputs(NetErr, NetErr, NetErr))

NavChat ==
    /\ Ready /\ Page = "home"
    /\ Interact(Start, Event("nav_chat_card"), Inputs(NetErr, NetErr, NetErr))

BackFromSearch(tr) ==
    /\ Ready /\ Page = "search"
    /\ Interact(Start, Event("back_search"), Inputs(tr, NetErr, NetErr))

BackFromChat(tr) ==
    /\ Ready /\ Page = "chat"
    /\ Interact(Start, Event("back_chat"), Inputs(tr, NetErr, NetErr))

(* A click on poster i of the "More Trending" row. *)
HeroClick(i, tr) ==
    /\ Ready /\ Page = "home"
    /\ i \in 0..(shown - 1)
    /\ Interact([Start EXCEPT !.clicked = i],
                [type |-> "trending_selector", i |-> i, text |-> <<>>],
                Inputs(tr, NetErr, NetErr))

Queries == {<<"a">>, <<"a", "b">>}

(* Text typed into the search box. *)
SearchInput(q, sr) ==
    /\ Ready /\ Page = "search"
    /\ Interact([Start EXCEPT !.search = q],
                [type |-> "search_input", i |-> -1, text |-> q],
                Inputs(NetErr, sr, NetErr))

(* Another option chosen in the selectbox. *)
SelectMovie(i, sr) ==
    /\ Ready /\ Page = "search"
    /\ i \in 0..(matches - 1)
    /\ Interact([Start EXCEPT !.selected = i],
                [type |-> "selectbox", i |-> i, text |-> <<>>],
                SearchInputs(sr, "net_err"))

(* A click on "Get Similar Recommendations". *)
RecommendClick(sr, o) ==
    /\ Ready /\ Page = "search"
    /\ matches > 0
    /\ Interact(Start, Event("recommend"), SearchInputs(sr, o))

(* A click on the Details button of card i of the grid. *)
DetailsClick(i, sr) ==
    /\ Ready /\ Page = "search"
    /\ i \in 0..(grid - 1)
    /\ Interact(Start, [type |-> "details", i |-> i, text |-> <<>>],
                SearchInputs(sr, "net_err"))

Prompts == {"p1", "p2"}

(* A prompt submitted in the chat input. *)
ChatSend(p, cr, bound) ==
    /\ Ready /\ Page = "chat"
    /\ Len(session_state.chat_history) < bound
    /\ Interact(Start, [type |-> "chat_input", i |-> -1, text |-> p],
                Inputs(NetErr, NetErr, cr))

(* A run of the script without a new widget value (a browser-side rerun). *)
RerunHome(tr) ==
    /\ Ready /\ Page = "home"
    /\ Interact(Start, Event("rerun"), Inputs(tr, NetErr, NetErr))

RerunSearch(sr) ==
    /\ Ready /\ Page = "search"
    /\ Interact(Start, Event("rerun"), Inputs(NetErr, sr, NetErr))

RerunChat ==
    /\ Ready /\ Page = "chat"
    /\ Interact(Start, Event("rerun"), Inputs(NetErr, NetErr, NetErr))

(* Time passes. *)
Tick(d, bound) ==
    /\ ticks < bound
    /\ now' = now + d
    /\ ticks' = ticks + 1
    /\ act' = "tick"
    /\ UNCHANGED <<session_state, clicked, search, shown, selected, matches, grid, cache,
                   wake, wakeCalls, prod, lastCall, reqs, errors, crashed, heroRead,
                   searchRet, payload, turn, recReq, arg, out>>

NoArg == [f |-> "none", k |-> <<>>, resp |-> [kind |-> "none", body |-> EmptyDict]]

(* The state of a new session in a new server process. *)
Fresh0 ==
    /\ session_state = EmptyDict
    /\ clicked = -1
    /\ search = <<>>
    /\ shown = 0
    /\ selected = 0
    /\ matches = 0
    /\ grid = 0
    /\ recReq = NoRecReq
    /\ cache = EmptyDict
    /\ now = 0
    /\ ticks = 0
    /\ wake = IdleFrame
    /\ wakeCalls = 0
    /\ prod = EmptyDict
    /\ lastCall = NoCall
    /\ act = "none"
    /\ reqs = <<>>
    /\ errors = {}
    /\ crashed = "no"
    /\ heroRead = NoRead
    /\ searchRet = NotCalled
    /\ payload = NoPayload
    /\ turn = NoTurn

Init ==
    /\ Fresh0
    /\ arg = NoArg
    /\ out = <<>>

Next ==
    \/ \E o \in Outcomes : FastProbe(o)
    \/ \E o \in Outcomes : RetryProbe(o)
    \/ \E tr \in TrendingResponses : WakeReturn(tr)
    \/ NavSearch
    \/ NavChat
    \/ \E tr \in TrendingResponses : BackFromSearch(tr)
    \/ \E tr \in TrendingResponses : BackFromChat(tr)
    \/ \E i \in 0..(GridSize - 1), tr \in TrendingResponses : HeroClick(i, tr)
    \/ \E q \in Queries, sr \in SearchResponses : SearchInput(q, sr)
    \/ \E cr \in ChatResponses : ChatSend("p1", cr, MaxChatMain)
    \/ \E tr \in TrendingResponses : RerunHome(tr)
    \/ \E sr \in SearchResponses : RerunSearch(sr)
    \/ RerunChat
    \/ Tick(TTL_TRENDING, MaxHours)

Spec == Init /\ [][Next]_vars

(***************************************************************************)
(* The chat page alone, with longer transcripts.                           *)
(***************************************************************************)
NextChat ==
    \/ \E o \in Outcomes : FastProbe(o)
    \/ \E o \in Outcomes : RetryProbe(o)
    \/ \E tr \in TrendingResponses : WakeReturn(tr)
    \/ NavChat
    \/ \E tr \in TrendingResponses : BackFromChat(tr)
    \/ \E p \in Prompts, cr \in ChatResponses : ChatSend(p, cr, MaxTranscript)
    \/ RerunChat

SpecChat == Init /\ [][NextChat]_vars

(***************************************************************************)
(* The cached accessors alone: any caller, any key, any response, with the *)
(* clock advancing between the calls.                                      *)
(***************************************************************************)
Deltas == {1, TTL_DEFAULT - 1, TTL_TRENDING - 1}

Call(f, k, resp) ==
    /\ <<f, k>> \in DOMAIN cache \/ Cardinality(DOMAIN cache) < MaxCached
    /\ \E c \in {CachedCall(cache, prod, f, k, now, resp)} :
          /\ cache' = c.cache
          /\ prod' = c.prod
          /\ lastCall' = c.call
          /\ reqs' = IF c.fetched /\ f # "poster" THEN <<"GET tmdb">> ELSE <<>>
    /\ act' = "call"
    /\ UNCHANGED <<session_state, clicked, search, shown, selected, matches, grid, now,
                   ticks, wake, wakeCalls, errors, crashed, heroRead, searchRet, payload,
                   turn, recReq, arg, out>>

NextCache ==
    \/ \E f \in Accessors : \E k \in Keys(f), resp \in Responses(f) : Call(f, k, resp)
    \/ \E d \in Deltas : Tick(d, MaxTicks)

SpecCache == Init /\ [][NextCache]_vars

(***************************************************************************)
(* The search page with its recommendations and Details buttons.           *)
(***************************************************************************)
NextSearch ==
    \/ \E o \in Outcomes : FastProbe(o)
    \/ \E o \in Outcomes : RetryProbe(o)
    \/ \E tr \in TrendingResponses : WakeReturn(tr)
    \/ NavSearch
    \/ \E tr \in TrendingResponses : BackFromSearch(tr)
    \/ \E q \in Queries, sr \in SearchResponses : SearchInput(q, sr)
    \/ \E i \in 0..1, sr \in SearchResponses : SelectMovie(i, sr)
    \/ \E sr \in SearchResponses, o \in RecOutcomes : RecommendClick(sr, o)
    \/ \E i \in 0..1, sr \in SearchResponses : DetailsClick(i, sr)
    \/ \E sr \in SearchResponses : RerunSearch(sr)
    \/ \E tr \in TrendingResponses : RerunHome(tr)

SpecSearch == Init /\ [][NextSearch]_vars

(***************************************************************************)
(* The accessors as functions: one accessor applied to one argument under  *)
(* one response of the metadata provider.                                  *)
(***************************************************************************)
RECURSIVE SeqsUpTo(_, _)
SeqsUpTo(S, n) ==
    IF n = 0 THEN {<<>>}
    ELSE LET shorter == SeqsUpTo(S, n - 1)
         IN shorter \cup {Append(q, x) : q \in shorter, x \in S}

VideoEntries ==
    {[type |-> PyStr("Teaser"), key |-> PyStr("k1")],
     [type |-> PyStr("Trailer"), key |-> PyStr("k2")],
     [type |-> PyStr("Trailer"), key |-> PyStr("k3")],
     [type |-> PyStr("Trailer"), key |-> PyStr("")],
     [type |-> PyStr("Trailer")],
     [key |-> PyStr("k4")]}

TrailerResponses ==
    {Ok([results |-> vs]) : vs \in SeqsUpTo(VideoEntries, MaxVideos)}
    \cup {Ok(EmptyDict), HttpErr, NetErr}

CastEntries == {[name |-> "A"], [name |-> "B"]}

CrewEntries ==
    {[name |-> "P", job |-> "Producer"], [name |-> "Q", job |-> "Director"],
     [name |-> "R", job |-> "Director"], [name |-> "S"]}

CreditsResponses ==
    {Ok([cast |-> c, crew |-> w]) :
        c \in SeqsUpTo(CastEntries, MaxCast), w \in SeqsUpTo(CrewEntries, MaxCrew)}
    \cup {Ok(EmptyDict), HttpErr, NetErr}

PosterArgs ==
    PosterPaths \cup {<<"h", "t", "t">>, <<"h", "t", "t", "p">>, ImageBase \o <<"/", "a">>,
                      Placeholder}

AccessorResponses(f) ==
    CASE f = "trailer" -> TrailerResponses
      [] f = "credits" -> CreditsResponses
      [] OTHER -> Responses(f)

AccessorArgs(f) == IF f = "poster" THEN PosterArgs ELSE Keys(f)

InitAccessors ==
    /\ Fresh0
    /\ \E f \in Accessors : \E k \in AccessorArgs(f), resp \in AccessorResponses(f) :
           arg = [f |-> f, k |-> k, resp |-> resp]
    /\ out = <<>>

Apply ==
    /\ arg # NoArg
    /\ out = <<>>
    /\ out' = <<Produce(arg.f, arg.k, arg.resp)>>
    /\ UNCHANGED <<session_state, clicked, search, shown, selected, matches, grid, cache,
                   now, ticks, wake, wakeCalls, prod, lastCall, act, reqs, errors, crashed,
                   heroRead, searchRet, payload, turn, recReq, arg>>

SpecAccessors == InitAccessors /\ [][Apply]_vars

(***************************************************************************)
(* Properties.                                                             *)
(***************************************************************************)

(* C1: wake_up_backend makes at most 1 + 30 probes; while it is still
   probing every probe so far has failed; it returns true exactly at its
   first successful probe, which is then the last probe made (the fast probe
   when that one succeeds); it returns false only after the fast probe and
   all 30 retry probes have failed. *)
C1_WakeUpContract ==
    /\ wake.probes <= 31
    /\ wake.pc = "retry" => wake.fails = wake.probes /\ wake.probes <= 30
    /\ (wake.pc = "done" /\ wake.ret) =>
          wake.last = "ok" /\ wake.fails = wake.probes - 1
    /\ (wake.pc = "done" /\ ~wake.ret) =>
          wake.last # "ok" /\ wake.fails = 31 /\ wake.probes = 31

C1_Witness == wake.pc = "done" /\ ~wake.ret /\ wake.probes = 31

(* C2: when the retry loop is about to issue its next probe, every failed
   retry probe so far was followed by a 2 s sleep, whatever the failure. *)
C2_SleepAfterEveryFailedRetry == wake.pc = "retry" => wake.sleeps = wake.i

SentToBackend(r) ==
    \E n \in 1..Len(r) : r[n] \in {"GET /health", "GET /search", "GET /recommend", "POST /chat"}

(* C3: a search_movies call made while the readiness flag is false returns
   the empty list, shows an error and sends nothing to the backend. *)
C3_SearchShortCircuits ==
    (searchRet.called /\ ~session_state.backend_ready) =>
        /\ searchRet.val = <<>>
        /\ errors # {}
        /\ ~SentToBackend(reqs)

C3_Witness ==
    /\ searchRet.called
    /\ ~session_state.backend_ready
    /\ act = "rerun"

(* C4: wake_up_backend is invoked at most once, and once the readiness flag
   is in the session state no step changes it, invokes wake_up_backend or
   probes /health. *)
C4_ReadyFlagComputedOnce ==
    [][/\ wakeCalls' <= 1
       /\ Has(session_state, "backend_ready") =>
             /\ Has(session_state', "backend_ready")
             /\ session_state'.backend_ready = session_state.backend_ready
             /\ wakeCalls' = wakeCalls
             /\ wake' = wake
             /\ \A n \in 1..Len(reqs') : reqs'[n] # "GET /health"]_vars

C4_Witness ==
    /\ Has(session_state, "backend_ready")
    /\ ~session_state.backend_ready
    /\ turn.sent /\ turn.failed

NavTransitions ==
    {<<"home", "search", "nav_search_card">>, <<"home", "chat", "nav_chat_card">>,
     <<"search", "home", "back_search">>, <<"chat", "home", "back_chat">>}

(* C5: the page starts as home, is always one of home, search and chat, and
   changes only by home->search, home->chat, search->home and chat->home,
   each on a click of the navigation button of that transition. *)
C5_PageNavigation ==
    [][/\ Has(session_state', "page") => session_state'.page \in {"home", "search", "chat"}
       /\ (~Has(session_state, "page") /\ Has(session_state', "page")) =>
             session_state'.page = "home"
       /\ Has(session_state, "page") =>
             /\ Has(session_state', "page")
             /\ session_state'.page # session_state.page =>
                   <<session_state.page, session_state'.page, act'>> \in NavTransitions]_vars

C5_Witness ==
    /\ Has(session_state, "page")
    /\ session_state.page = "home"
    /\ act = "back_chat"
    /\ Has(session_state, "hero_index") /\ session_state.hero_index > 0

(* C10: every evaluation of trending[hero_index] finds hero_index within
   the list. *)
C10_HeroIndexValid ==
    heroRead # NoRead => 0 <= heroRead.idx /\ heroRead.idx < heroRead.len

ClaimedTTL(f) == IF f = "trending" THEN 3600 ELSE 600

(* C6: a call of a cached accessor made less than the TTL (600 s, trending
   3600 s) after the last execution of its body for the same arguments runs
   no fetch and returns what that execution returned; a first call for the
   arguments, or one made when the TTL has elapsed, runs the body and the
   entry becomes its result, stored at the time of the call. *)
C6_CacheTTL ==
    lastCall.at >= 0 =>
        LET f == lastCall.cell[1]
        IN /\ (lastCall.gap >= 0 /\ lastCall.gap < ClaimedTTL(f)) =>
                 ~lastCall.fetched /\ <<lastCall.ret>> = lastCall.prev
           /\ (lastCall.gap = -1 \/ lastCall.gap >= ClaimedTTL(f)) =>
                 /\ lastCall.fetched
                 /\ lastCall.cell \in DOMAIN cache
                 /\ cache[lastCall.cell] = [val |-> lastCall.ret, at |-> lastCall.at]

C6_Witness ==
    /\ lastCall.cell = <<"trending", <<>>>>
    /\ lastCall.gap >= 3600
    /\ lastCall.fetched
    /\ <<lastCall.ret>> # lastCall.prev

(* C7: every cache entry of an accessor that fetches is the result of a
   successful fetch. *)
C7_CacheHoldsOnlySuccesses ==
    \A c \in DOMAIN cache : c[1] # "poster" => prod[c].ok

IsChatRole(m) == m.role \in {"user", "assistant"}

SentTranscript == Append(turn.before, [role |-> "user", content |-> turn.prompt])

(* C8: the messages posted to /chat are the last 6 entries of the
   transcript as it stands with the submitted prompt appended, without the
   entries whose role is neither user nor assistant, in transcript order. *)
C8_ChatPayload ==
    turn.sent =>
        /\ payload.sent
        /\ LET T == SentTranscript
               lo == IF Len(T) > 6 THEN Len(T) - 5 ELSE 1
           IN payload.msgs = SelectSeq(SubSeq(T, lo, Len(T)), IsChatRole)

C8_Witness ==
    /\ turn.sent
    /\ Len(SentTranscript) > 6
    /\ payload.msgs[1] # SentTranscript[1]
    /\ \E n \in 1..Len(payload.msgs) : payload.msgs[n].role = "assistant"

(* C9 as stated: after a failed chat turn the transcript equals the
   transcript before the prompt was submitted, and an error is shown. *)
C9_FailedTurnLeavesTranscript ==
    (turn.sent /\ turn.failed) =>
        /\ session_state.chat_history = turn.before
        /\ errors # {}

(* C9, amended: after a failed chat turn the transcript is the transcript
   before the submit followed by the submitted user message and nothing
   else (no assistant message), and an error is shown. *)
C9_FailedTurnAppendsOnlyPrompt ==
    (turn.sent /\ turn.failed) =>
        /\ session_state.chat_history = SentTranscript
        /\ errors # {}

C9_Witness ==
    /\ turn.sent /\ turn.failed
    /\ Len(turn.before) > 1
    /\ "Error: 'content'" \in errors

(* The safe default each fetching accessor is documented to degrade to. *)
SafeDefault(f) ==
    CASE f = "trailer" -> PyNone
      [] f = "details" -> EmptyDict
      [] f = "credits" -> [cast |-> <<"N/A">>, director |-> "N/A"]
      [] f = "providers" -> <<>>
      [] f = "trending" -> <<>>

(* C11: an accessor whose request got a non-2xx response returns its safe
   default: trailer none, details the empty object, credits N/A and N/A,
   watch providers and trending the empty list. *)
C11_NonOkGivesDefault ==
    (out # <<>> /\ arg.resp.kind = "http_err") => out[1] = SafeDefault(arg.f)

(* C12: a search_movies call whose /search request failed, by a network
   error or by a non-2xx response, returns the empty list and shows an
   error. *)
C12_SearchFailureReported ==
    (searchRet.called /\ searchRet.kind \in {"http_err", "net_err"}) =>
        /\ searchRet.val = <<>>
        /\ errors # {}

MinOf(S) == CHOOSE i \in S : \A j \in S : i <= j

(* The cast string of the first n names: the names separated by ", ". *)
CastString(castList, n) ==
    IF n = 0 THEN <<>>
    ELSE [i \in 1..(2 * n - 1) |-> IF i % 2 = 1 THEN castList[(i + 1) \div 2].name ELSE ", "]

(* C13: fetch_credits returns the names of the first 3 cast entries in
   order, and the name of the first crew entry whose job is "Director",
   "Unknown" when there is none; a failed fetch gives cast "N/A" and
   director "N/A". *)
C13_CreditsDerivation ==
    (out # <<>> /\ arg.f = "credits") =>
        IF arg.resp.kind = "ok"
        THEN LET castList == Get(arg.resp.body, "cast", <<>>)
                 crew == Get(arg.resp.body, "crew", <<>>)
                 dirs == {i \in 1..Len(crew) :
                             Has(crew[i], "job") /\ crew[i].job = "Director"}
             IN /\ out[1].cast = CastString(castList, Min(3, Len(castList)))
                /\ out[1].director = IF dirs = {} THEN "Unknown" ELSE crew[MinOf(dirs)].name
        ELSE out[1] = [cast |-> <<"N/A">>, director |-> "N/A"]

(* The videos of a response, and the video fetch_trailer is to choose. *)
VideosOf(resp) == IF resp.kind = "net_err" THEN <<>> ELSE Get(resp.body, "results", <<>>)

ChosenVideo(videos) ==
    LET trailers == {i \in 1..Len(videos) :
                        Has(videos[i], "type") /\ videos[i].type = PyStr("Trailer")}
    IN IF trailers # {} THEN videos[MinOf(trailers)] ELSE videos[1]

(* C14 as stated: fetch_trailer returns the key of the first video of type
   "Trailer", else of the first video, and the "no trailer" sentinel exactly
   when there is no video or the fetch failed: a chosen video whose key is
   empty or missing does not give the sentinel. *)
C14_TrailerOrSentinel ==
    (out # <<>> /\ arg.f = "trailer") =>
        IF VideosOf(arg.resp) = <<>>
        THEN out[1] = PyNone
        ELSE /\ out[1] # PyNone
             /\ Has(ChosenVideo(VideosOf(arg.resp)), "key") =>
                   out[1] = ChosenVideo(VideosOf(arg.resp)).key

(* C14, amended: as above, but the sentinel is also the result when the
   chosen video has no key field; an empty key is returned as the empty
   string, which is not the sentinel. *)
C14_TrailerKeyOrNone ==
    (out # <<>> /\ arg.f = "trailer") =>
        IF VideosOf(arg.resp) = <<>>
        THEN out[1] = PyNone
        ELSE IF Has(ChosenVideo(VideosOf(arg.resp)), "key")
        THEN out[1] = ChosenVideo(VideosOf(arg.resp)).key /\ out[1] # PyNone
        ELSE out[1] = PyNone

C14_Witness ==
    /\ arg.f = "trailer"
    /\ out = <<PyStr("")>>
    /\ Len(VideosOf(arg.resp)) = 2
    /\ VideosOf(arg.resp)[1] = [key |-> PyStr("k4")]

(* C15: fetch_poster returns a path that already starts with a scheme
   unchanged, and applying it to its own result of a non-empty path changes
   nothing. *)
C15_PosterPassThrough ==
    (out # <<>> /\ arg.f = "poster") =>
        /\ StartsWithHttp(arg.k) => out[1] = arg.k
        /\ arg.k # <<>> => fetch_poster(out[1]) = out[1]

UserMsg(p) == [role |-> "user", content |-> p]

(* C16: the transcript is created as the single greeting; a step that
   submits a prompt appends the user message, followed by one assistant
   message exactly when the turn succeeded; every other step leaves the
   transcript as it is. *)
C16_TranscriptAppendOnly ==
    [][/\ (~Has(session_state, "chat_history") /\ Has(session_state', "chat_history")) =>
             session_state'.chat_history = <<Greeting>>
       /\ Has(session_state, "chat_history") =>
             /\ Has(session_state', "chat_history")
             /\ LET h == session_state.chat_history
                    h2 == session_state'.chat_history
                IN IF act' = "chat_input"
                   THEN /\ Len(h2) = Len(h) + (IF turn'.failed THEN 1 ELSE 2)
                        /\ SubSeq(h2, 1, Len(h) + 1) = Append(h, UserMsg(turn'.prompt))
                        /\ ~turn'.failed => h2[Len(h2)].role = "assistant"
                   ELSE h2 = h]_vars

C16_Witness ==
    /\ Has(session_state, "chat_history")
    /\ Len(session_state.chat_history) = 4
    /\ session_state.chat_history[2].role = "user"
    /\ session_state.chat_history[3].role = "user"
    /\ session_state.chat_history[4].role = "assistant"
    /\ act = "rerun"

(* C17: the run of a Details click ends without an error, and at the end of
   every interaction show_dialog is false: the dialog logic has shown the
   dialog and cleared the flag. *)
C17_DialogShownOnce ==
    /\ act = "details" => crashed = "no"
    /\ Has(session_state, "show_dialog") => ~session_state.show_dialog

(* C18: recs and source_movie are present together; a recommend request
   with a 2xx response that has a recommendations field stores that list
   and the movie asked about, any other recommend request leaves both as
   they were, and no other step changes them; the stored list is the one
   returned for the stored movie. *)
C18_RecsBelongToSource ==
    /\ [](/\ Has(session_state, "recs") <=> Has(session_state, "source_movie")
          /\ Has(session_state, "recs") =>
                session_state.recs \in {<<>>, RecsOf(session_state.source_movie.id)}
          /\ recReq.sent =>
                IF recReq.stored
                THEN session_state.source_movie = recReq.movie
                ELSE RecState(session_state) = recReq.before)
    /\ [][RecState(session_state') # RecState(session_state) =>
             act' = "recommend" /\ recReq'.sent /\ recReq'.stored]_vars

C18_Witness ==
    /\ recReq.sent /\ ~recReq.stored
    /\ Has(session_state, "recs")
    /\ session_state.recs = RecsOf(1)
    /\ recReq.movie.id = 2
    /\ "API Error" \in errors

====
